---------------------------- MODULE Spec2Model ----------------------------
(***************************************************************************)
(* A model of the mathparse .vo decoder (src/src/parse.rs, src/src/types.rs *)
(* and vo-parse-derive).  Three specifications share this module:           *)
(*   Spec        the file driver: vo_magic, segment, the eager combinators  *)
(*               (string, int, block, vec, blockN, my, nullable) and Memory *)
(*   SpecTag     parse_object applied to one bounded byte string            *)
(*   SpecDirPath the DirPath projection of types.rs over an untyped Memory  *)
(***************************************************************************)
EXTENDS Integers, Sequences, FiniteSets, TLC

VARIABLES
    input,      \* the bytes of the file read so far (a prefix of the file)
    eof,        \* TRUE when `input` is the whole file
    pos,        \* bytes consumed: file_len - i.len()
    pc,         \* where file() is: magic, header, object, backfill, post, digest, end, ok, error, panic
    root,       \* the parser f handed to segment(), as a schema
    hdr,        \* what segment() keeps of the header: stop, len, size
    origPos,    \* segment(): orig_pos, as an absolute offset
    cells,      \* Memory.cells
    stack,      \* the block() calls in progress, innermost last
    result,     \* the value f returned (the root object)
    err,        \* the error value file() returns, when pc = "error"
    ptrlog,     \* every point_back2 call that returned a value: offset, memory.len(), target
    blklog,     \* every block() call that returned through backfill_struct2
    digest,     \* the 16 bytes segment() read after the body
    tIn, tOut,  \* SpecTag: the input of parse_object and its result
    dpChain, dpMem, dpCur, dpHeads, dpOut, dpPc   \* SpecDirPath

mainVars == <<input, eof, pos, pc, root, hdr, origPos, cells, stack, result, err, ptrlog, blklog, digest>>
tagVars  == <<tIn, tOut>>
dpVars   == <<dpChain, dpMem, dpCur, dpHeads, dpOut, dpPc>>
vars     == <<mainVars, tagVars, dpVars>>

---------------------------------------------------------------------------
(* Bounds of the model.                                                    *)

MaxBody  == 5    \* the longest segment body the environment reveals, in bytes
MaxObj   == 3    \* the largest object count / size a header declares
MaxChain == 3    \* the longest on-disk DirPath chain

---------------------------------------------------------------------------
(* Program constants.                                                      *)

VO_MAGIC == 8991
CODE_INT8 == 0
CODE_INT16 == 1
CODE_INT32 == 2
CODE_INT64 == 3
CODE_SHARED8 == 4
CODE_SHARED16 == 5
CODE_SHARED32 == 6
CODE_DOUBLE_ARRAY32_LITTLE == 7
CODE_BLOCK32 == 8
CODE_STRING8 == 9
CODE_STRING32 == 10
CODE_DOUBLE_BIG == 11
CODE_DOUBLE_LITTLE == 12
CODE_DOUBLE_ARRAY8_BIG == 13
CODE_DOUBLE_ARRAY8_LITTLE == 14
CODE_DOUBLE_ARRAY32_BIG == 15
CODE_CODEPOINTER == 16
CODE_INFIXPOINTER == 17
CODE_CUSTOM == 18
CODE_BLOCK64 == 19
DigestLen == 16

SegMagic == <<132, 149, 166, 190>>
CustomJ  == <<95, 106>>          \* b"_j"

---------------------------------------------------------------------------
(* Byte reader: nom's big-endian number parsers and take.                 *)

RECURSIVE BEu(_)
\* be_u8 / be_u16 / be_u24 / be_u32 / be_u64: the unsigned big-endian value
BEu(bs) == IF bs = <<>> THEN 0
           ELSE BEu(SubSeq(bs, 1, Len(bs) - 1)) * 256 + bs[Len(bs)]

\* be_i8 / be_i16 / be_i32 / be_i64: two's complement, sign-extended
BEi(bs) == IF bs[1] >= 128
           THEN -(BEu([k \in 1..Len(bs) |-> 255 - bs[k]]) + 1)
           ELSE BEu(bs)

\* x & m for a mask m = 2^k - 1, and x >> k, on non-negative x
Mask(x, m) == x % (m + 1)
Shr(x, k)  == x \div (2 ^ k)

\* The position of the first NUL byte of i, or 0 when there is none
FirstNul(i) == IF \E k \in 1..Len(i) : i[k] = 0
               THEN CHOOSE k \in 1..Len(i) : i[k] = 0 /\ \A j \in 1..(k - 1) : i[j] # 0
               ELSE 0

---------------------------------------------------------------------------
(* Repr and the results of a parser.                                       *)

Repr(t, a, b, s) == [t |-> t, a |-> a, b |-> b, s |-> s]
RInt(n)          == Repr("RInt", n, 0, <<>>)
RInt63(n)        == Repr("RInt63", n, 0, <<>>)
RBlock(tag, len) == Repr("RBlock", tag, len, <<>>)
RString(s)       == Repr("RString", 0, 0, s)
RPointer(n)      == Repr("RPointer", n, 0, <<>>)
RCode(n)         == Repr("RCode", n, 0, <<>>)
NoRepr           == Repr("none", 0, 0, <<>>)

\* Ok((rest, repr)) after consuming n bytes
POk(repr, n)   == [kind |-> "Ok", repr |-> repr, n |-> n, msg |-> "", short |-> FALSE]
\* nom::Err::Error(ErrorKind::Eof): a primitive ran out of input n bytes in
PEof(n)        == [kind |-> "Error", repr |-> NoRepr, n |-> n, msg |-> "Eof", short |-> TRUE]
\* fail(i, msg): nom::Err::Failure, reported n bytes in
PFail(msg, n)  == [kind |-> "Failure", repr |-> NoRepr, n |-> n, msg |-> msg, short |-> FALSE]
\* a Rust panic (the process aborts; no value is returned)
PPanic(msg, n) == [kind |-> "Panic", repr |-> NoRepr, n |-> n, msg |-> msg, short |-> TRUE]

\* A fixed-width field of w bytes after the lead byte, decoded to repr
Fixed(r, w, repr) == IF Len(r) < w THEN PEof(1) ELSE POk(repr, 1 + w)

\* header32 keeping the two low bits of the 3-byte length
header32NoShift(bs) == RBlock(bs[4], BEu(SubSeq(bs, 1, 3)))

\* header32: be_u24 then be_u8; header64: one be_u64
header32(bs) == RBlock(bs[4], Shr(BEu(SubSeq(bs, 1, 3)), 2))
header64(bs) == RBlock(Mask(BEu(bs), 255), Shr(BEu(bs), 10))

MkInt(bs)     == RInt(BEi(bs))
MkPointer(bs) == RPointer(BEu(bs))

\* CODE_STRING8 / CODE_STRING32: a w-byte length, then that many bytes
LenString(r, w) ==
    IF Len(r) < w THEN PEof(1)
    ELSE LET len == BEu(SubSeq(r, 1, w)) IN
         IF Len(r) - w < len THEN PEof(1 + w)
         ELSE POk(RString(SubSeq(r, w + 1, w + len)), 1 + w + len)

\* CODE_CUSTOM: cstring, then the payload of the one recognised identifier.
\* cstring slices &i[1..] after take_till: with no NUL left in the input the
\* slice is empty and the index panics.
Custom(r) ==
    LET z == FirstNul(r) IN
    IF z = 0 THEN PPanic("slice index starts at 1 but ends at 0", 1 + Len(r))
    ELSE LET string == SubSeq(r, 1, z - 1)
             rest   == SubSeq(r, z + 1, Len(r))
         IN IF string = CustomJ
            THEN IF Len(rest) < 8 THEN PEof(1 + z)
                 ELSE LET n == BEi(SubSeq(rest, 1, 8)) IN
                      IF n < 0 THEN PFail("uint63 out of range", 1 + z + 8)
                      ELSE POk(RInt63(n), 1 + z + 8)
            ELSE PFail("Unhandled custom code", 1 + z)

\* parse_object: one lead byte, then the follow-on bytes its code asks for
ParseObject(i) ==
    IF Len(i) < 1 THEN PEof(0)
    ELSE LET data == i[1]
             r    == Tail(i)
         IN CASE data \in 128..255 -> POk(RBlock(Mask(data, 15), Mask(Shr(data, 4), 7)), 1)
              [] data \in 64..127  -> POk(RInt(Mask(data, 63)), 1)
              [] data \in 32..63   ->
                    IF Len(r) < Mask(data, 31) THEN PEof(1)
                    ELSE POk(RString(SubSeq(r, 1, Mask(data, 31))), 1 + Mask(data, 31))
              [] data = CODE_INT8     -> Fixed(r, 1, MkInt(SubSeq(r, 1, 1)))
              [] data = CODE_INT16    -> Fixed(r, 2, MkInt(SubSeq(r, 1, 2)))
              [] data = CODE_INT32    -> Fixed(r, 4, MkInt(SubSeq(r, 1, 4)))
              [] data = CODE_INT64    -> Fixed(r, 8, MkInt(SubSeq(r, 1, 8)))
              [] data = CODE_SHARED8  -> Fixed(r, 1, MkPointer(SubSeq(r, 1, 1)))
              [] data = CODE_SHARED16 -> Fixed(r, 2, MkPointer(SubSeq(r, 1, 2)))
              [] data = CODE_SHARED32 -> Fixed(r, 4, MkPointer(SubSeq(r, 1, 4)))
              [] data = CODE_BLOCK32  -> Fixed(r, 4, header32(SubSeq(r, 1, 4)))
              [] data = CODE_BLOCK64  -> Fixed(r, 8, header64(SubSeq(r, 1, 8)))
              [] data = CODE_STRING8  -> LenString(r, 1)
              [] data = CODE_STRING32 -> LenString(r, 4)
              [] data = CODE_CODEPOINTER ->
                    IF Len(r) < 4 THEN PEof(1)
                    ELSE IF Len(r) < 4 + 16 THEN PEof(1 + 4)
                    ELSE POk(RCode(BEu(SubSeq(r, 1, 4))), 1 + 4 + 16)
              [] data = CODE_CUSTOM   -> Custom(r)
              [] OTHER                -> PFail("Unhandled code", 1)

---------------------------------------------------------------------------
(* Parsers as data.  A parser built from the combinators of parse.rs is a *)
(* schema; its Rust result type is determined by the schema, so a schema   *)
(* also stands for the type T of a Memory cell (Rc<dyn Any> downcast).     *)

Sch(k, sub)  == [k |-> k, sub |-> sub]
SInt         == Sch("int", <<>>)          \* int
SString      == Sch("string", <<>>)       \* string(f), f total
SVec(e)      == Sch("vec", <<e>>)         \* vec(e)
SRec(fs)     == Sch("rec", fs)            \* block1/2/3/5, tuple2, wrapped, derived VoParseRef
SMy(e)       == Sch("my", <<e>>)          \* my(e) / parse_val
SNullable(e) == Sch("nullable", <<e>>)    \* nullable(e)
NoTy         == Sch("none", <<>>)

RECURSIVE Core(_)
\* The combinator that finally reads the object, under my/nullable
Core(s) == IF s.k \in {"my", "nullable"} THEN Core(s.sub[1]) ELSE s

RECURSIVE Wraps(_)
\* The my/nullable wrappers around the core, outermost first
Wraps(s) == IF s.k \in {"my", "nullable"} THEN <<s.k>> \o Wraps(s.sub[1]) ELSE <<>>

\* The parsers handed to segment() in this model
Roots == {
    SMy(SRec(<<SString, SString>>)),
    SMy(SRec(<<SMy(SString), SMy(SString)>>)),
    SMy(SVec(SNullable(SVec(SString)))),
    SMy(SRec(<<SInt, SNullable(SString), SMy(SRec(<<SString>>))>>)) }

---------------------------------------------------------------------------
(* Typed values.  id is the identity of a shared (Rc) object: the Memory   *)
(* address that holds it.  id = -1 is a value owned by its position.  src  *)
(* is the Memory address the value was read from, whoever owns it now.     *)

Val(t, id, src, v) == [t |-> t, id |-> id, src |-> src, v |-> v]
NoVal         == Val("none", -1, -1, <<>>)
VInt(n)       == Val("int", -1, -1, <<n>>)
VNone         == Val("None", -1, -1, <<>>)
VSome(x)      == Val("Some", -1, -1, <<x>>)
\* Rc::new(data), about to be stored at Memory address a
VRc(t, a, v)  == Val(t, a, a, v)

---------------------------------------------------------------------------
(* Memory.                                                                 *)

NoneCell      == [st |-> "None", val |-> NoVal, ty |-> NoTy]
SomeCell(v, ty) == [st |-> "Some", val |-> v, ty |-> ty]

\* Memory::push
push(cs, v, ty) == Append(cs, SomeCell(v, ty))

\* reserve_for_struct issuing an address without adding the cell
reserve_for_structNoCell(cs) == cs

\* Memory::reserve_for_struct: the new cells; the address issued is Len(cs)
reserve_for_struct(cs) == Append(cs, NoneCell)

MOk(v)      == [kind |-> "Ok", val |-> v, msg |-> ""]
MErr(msg)   == [kind |-> "Err", val |-> NoVal, msg |-> msg]
MPanic(msg) == [kind |-> "Panic", val |-> NoVal, msg |-> msg]

\* point_back2 handing out whatever the cell holds, finished or not
point_back2Unfinished(cs, offset, ty) ==
    IF offset > Len(cs)
    THEN { MPanic("attempt to subtract with overflow"),
           MErr("Pointer is to next object") }
    ELSE LET index == Len(cs) - offset IN
         IF index >= Len(cs) THEN { MErr("Pointer is to next object") }
         ELSE { MOk(cs[index + 1].val) }

\* Memory::point_back2::<T>: the set of outcomes the build can produce.
\* cells.len() - offset is usize arithmetic: with offset > len it panics
\* when overflow checks are compiled in and wraps to an index >= len otherwise.
point_back2(cs, offset, ty) ==
    IF offset > Len(cs)
    THEN { MPanic("attempt to subtract with overflow"),
           MErr("Pointer is to next object") }
    ELSE LET index == Len(cs) - offset IN
         IF index >= Len(cs) THEN { MErr("Pointer is to next object") }
         ELSE IF cs[index + 1].st = "Some"
              THEN IF cs[index + 1].ty = ty
                   THEN { MOk(cs[index + 1].val) }
                   ELSE { MErr("downcasting error on pointer") }
              ELSE { MErr("Pointer is to object that we haven't finished building") }

\* backfill_struct2 storing the data whatever the cell holds
backfill_struct2Overwrite(cs, addr, v, ty) ==
    [kind |-> "Ok", cells |-> [cs EXCEPT ![addr + 1] = SomeCell(v, ty)]]

\* Memory::backfill_struct2: the cell must still be None, else panic
backfill_struct2(cs, addr, v, ty) ==
    IF cs[addr + 1].st = "None"
    THEN [kind |-> "Ok", cells |-> [cs EXCEPT ![addr + 1] = SomeCell(v, ty)]]
    ELSE [kind |-> "Panic", cells |-> cs]

\* unshare that always moves the value out of the Rc
unshareMove(cs, rc) == rc

\* unshare: Rc::try_unwrap succeeds only for the sole owner; a value that a
\* Memory cell also holds is cloned, and the clone is owned by its position.
unshare(cs, rc) ==
    IF \E a \in 1..Len(cs) : cs[a].st = "Some" /\ cs[a].val.id = rc.id
    THEN [rc EXCEPT !.id = -1]
    ELSE rc

RECURSIVE ApplyWraps(_, _, _)
\* What my / nullable make of the value v their inner parser returned
ApplyWraps(ws, cs, v) ==
    IF ws = <<>> THEN v
    ELSE LET inner == ApplyWraps(Tail(ws), cs, v) IN
         IF ws[1] = "my" THEN unshare(cs, inner) ELSE VSome(inner)

\* The index of the outermost nullable among the wrappers, or 0
FirstNullable(ws) == IF \E j \in 1..Len(ws) : ws[j] = "nullable"
                     THEN CHOOSE j \in 1..Len(ws) : ws[j] = "nullable" /\ \A h \in 1..(j - 1) : ws[h] # "nullable"
                     ELSE 0

---------------------------------------------------------------------------
(* The file as the decoder meets it.  The decoder is a single pass over a  *)
(* byte slice, so the file is revealed chunk by chunk: `input` is the      *)
(* prefix read so far and `eof` says that nothing follows it.              *)

RECURSIVE EncU(_, _)
\* w big-endian bytes of v >= 0
EncU(v, w) == IF w = 0 THEN <<>> ELSE Append(EncU(v \div 256, w - 1), v % 256)

\* the 4 bytes be_i32 reads back as v
Enc32(v) == IF v >= 0 THEN EncU(v, 4)
            ELSE [k \in 1..4 |-> 255 - EncU(-(v + 1), 4)[k]]

Rest == SubSeq(input, pos + 1, Len(input))

\* The file magics tried: the right one, a wrong one, a truncated one
MagicChunks == { Enc32(VO_MAGIC), Enc32(VO_MAGIC - 1), <<0, 0>> }

\* Offset of the first body byte: file magic, stop, segment magic, four integers
BodyStart == 4 + 4 + 4 + 4 * 4

\* The segment headers tried, as stop, magic, length, objects, size32, size64
HeaderChunks ==
    { Enc32(BodyStart + length + d) \o SegMagic \o Enc32(length) \o Enc32(objects)
        \o Enc32(0) \o Enc32(size64) :
        length \in {-1} \cup (MaxBody - 2)..MaxBody, d \in {0, 1},
        objects \in {-1} \cup 2..MaxObj, size64 \in (MaxObj - 1)..MaxObj }
    \cup { Enc32(BodyStart) \o <<132, 149, 166, 191>>, Enc32(BodyStart) \o <<132>> }

\* The encoded objects tried in a segment body
ObjectChunks == {
    <<64>>, <<65>>, <<0, 0>>,                       \* Int 0, Int 1, INT8 0
    <<33, 88>>, <<32>>, <<33>>,                     \* "X", "", a string cut short
    <<4, 0>>, <<4, 1>>, <<4, 2>>, <<4, 3>>,         \* SHARED8 0..3
    <<128>>, <<144>>, <<160>>, <<176>>,             \* small blocks: tag 0, len 0..3
    <<145>>, <<130>>,                               \* tag 1 len 1 (0x91), tag 2 len 0 (0x82)
    <<8, 0, 0, 8, 0>>, <<8, 0, 0, 0, 0>>,           \* BLOCK32 tag 0 len 2, len 0
    <<18>>, <<18, 65, 0>>,                          \* CUSTOM: no NUL, unknown identifier
    <<7>>,                                          \* an unsupported code
    <<>> }

DigestChunks == { [k \in 1..DigestLen |-> 0], [k \in 1..DigestLen |-> 255], <<0>> }

ChunksAt(p) == CASE p = "magic"  -> MagicChunks
                 [] p = "header" -> HeaderChunks
                 [] p = "object" -> ObjectChunks
                 [] p = "digest" -> DigestChunks
                 [] OTHER        -> { <<>>, <<0>> }

---------------------------------------------------------------------------
(* The parsers of the file driver, as functions of the remaining input.    *)

\* vo_magic
vo_magic(i) ==
    IF Len(i) < 4 THEN PEof(0)
    ELSE IF BEi(SubSeq(i, 1, 4)) = VO_MAGIC THEN POk(NoRepr, 4)
    ELSE PFail("vo_magic", 4)

\* header with its tuple in the order the fields are read
headerInFileOrder(bs) ==
    <<BEi(SubSeq(bs, 1, 4)), BEi(SubSeq(bs, 5, 8)), BEi(SubSeq(bs, 9, 12)), BEi(SubSeq(bs, 13, 16))>>

\* header: the tuple it returns, from the 16 bytes after the segment magic
header(bs) ==
    LET length  == BEi(SubSeq(bs, 1, 4))
        objects == BEi(SubSeq(bs, 5, 8))
        size32  == BEi(SubSeq(bs, 9, 12))
        size64  == BEi(SubSeq(bs, 13, 16))
    IN <<length, size32, size64, objects>>

\* segment, up to orig_pos: be_i32 stop, then header (tag, four be_i32)
SegHead(i) ==
    IF Len(i) < 4 THEN PEof(0)
    ELSE IF Len(i) < 8 \/ SubSeq(i, 5, 8) # SegMagic
         THEN [kind |-> "Error", repr |-> NoRepr, n |-> 4, msg |-> "Tag",
               short |-> (Len(i) < 8)]
    ELSE IF Len(i) < 24 THEN PEof(8 + 4 * ((Len(i) - 8) \div 4))
    ELSE POk(NoRepr, 24)

\* What the parser at p makes of the remaining input i
Scan(p, i) == CASE p = "magic"  -> vo_magic(i)
                [] p = "header" -> SegHead(i)
                [] p = "object" -> ParseObject(i)
                [] p = "digest" -> IF Len(i) < DigestLen THEN PEof(0) ELSE POk(NoRepr, DigestLen)
                [] OTHER        -> IF i = <<>> THEN PEof(0) ELSE POk(NoRepr, 0)

\* The parser can run: its outcome no longer depends on bytes not yet revealed
Ready(r) == eof \/ ~r.short

\* The environment reveals the next chunk of the file.  The file ends after a
\* chunk that leaves the parser short of bytes (the empty chunk is the end itself).
Reveal ==
    /\ pc \in {"magic", "header", "object", "digest", "end"}
    /\ ~eof
    /\ pos = Len(input)
    /\ \E c \in ChunksAt(pc) :
          /\ pc = "object" => Len(input) + Len(c) - origPos <= MaxBody
          /\ input' = input \o c
          /\ eof' = Scan(pc, c).short
    /\ UNCHANGED <<pos, pc, root, hdr, origPos, cells, stack, result, err, ptrlog, blklog, digest, tagVars, dpVars>>

---------------------------------------------------------------------------
(* Outcomes.                                                               *)

NoErr == [msg |-> "", at |-> 0, got |-> NoRepr]

\* Err(...): the error value, one (position, message) frame; `got` is the
\* Repr the message prints, when it prints one
FailGot(msg, at, got) ==
    /\ pc' = "error"
    /\ err' = [msg |-> msg, at |-> at, got |-> got]

Fail(msg, at) == FailGot(msg, at, NoRepr)

\* a panic: the process aborts
Panic(msg, at) ==
    /\ pc' = "panic"
    /\ err' = [msg |-> msg, at |-> at, got |-> NoRepr]

\* A parser's Error / Failure / panic ends file()
Abort(r) ==
    IF r.kind = "Panic" THEN Panic(r.msg, pos + r.n) ELSE Fail(r.msg, pos + r.n)

---------------------------------------------------------------------------
(* file_contents and segment.                                              *)

\* file_contents: vo_magic
VoMagic ==
    /\ pc = "magic"
    /\ LET r == vo_magic(Rest) IN
         /\ Ready(r)
         /\ IF r.kind = "Ok"
            THEN pc' = "header" /\ pos' = pos + r.n /\ err' = err
            ELSE Abort(r) /\ pos' = pos
    /\ UNCHANGED <<input, eof, root, hdr, origPos, cells, stack, result, ptrlog, blklog, digest, tagVars, dpVars>>

\* segment: stop, header, orig_pos, Memory::with_capacity(size as usize).
\* A negative size is a usize beyond isize::MAX / 16: capacity overflow.
SegmentStart ==
    /\ pc = "header"
    /\ LET r == SegHead(Rest) IN
         /\ Ready(r)
         /\ IF r.kind = "Ok"
            THEN LET stop == BEi(SubSeq(Rest, 1, 4))
                     t    == header(SubSeq(Rest, 9, 24))
                     len  == t[1]
                     size == t[4]
                 IN /\ pos' = pos + r.n
                    /\ origPos' = pos + r.n
                    /\ hdr' = [stop |-> stop, len |-> len, size |-> size]
                    /\ cells' = <<>>
                    /\ IF size < 0
                       THEN Panic("capacity overflow", pos + r.n)
                       ELSE pc' = "object" /\ err' = err
            ELSE Abort(r) /\ UNCHANGED <<pos, origPos, hdr, cells>>
    /\ UNCHANGED <<input, eof, root, stack, result, ptrlog, blklog, digest, tagVars, dpVars>>

---------------------------------------------------------------------------
(* The combinators.  One step is one call of parse_object by the innermost *)
(* combinator waiting for an object, with everything that call decides.    *)

\* The parser waiting for the next object: f itself, or the child parser of
\* the innermost block in progress
Goal == IF stack = <<>> THEN root
        ELSE LET f == stack[Len(stack)] IN
             IF f.sch.k = "vec" THEN f.sch.sub[1]
             ELSE f.sch.sub[Len(f.got) + 1]

\* A combinator returns v (parsed from offset `from` by parser g) to its caller
Return(stk, v, from, g) ==
    IF stk = <<>>
    THEN /\ result' = v
         /\ stack' = stk
         /\ pc' = "post"
    ELSE LET f  == stk[Len(stk)]
             f2 == [f EXCEPT !.got = Append(@, v), !.at = Append(@, from), !.by = Append(@, g)]
         IN /\ result' = result
            /\ stack' = [stk EXCEPT ![Len(stk)] = f2]
            /\ pc' = IF Len(f2.got) = f2.len THEN "backfill" ELSE "object"

\* usize == i32 as usize: a negative i32 casts to a value no count reaches
EqAsUsize(n, x) == x >= 0 /\ n = x

\* parse_object fails, or panics, under any combinator (nullable included)
ObjectAbort ==
    /\ pc = "object"
    /\ LET r == ParseObject(Rest) IN
         /\ Ready(r)
         /\ r.kind # "Ok"
         /\ Abort(r)
    /\ UNCHANGED <<input, eof, pos, root, hdr, origPos, cells, stack, result, ptrlog, blklog, digest, tagVars, dpVars>>

\* nullable: the lookahead sees RInt(0)
NullableNone ==
    /\ pc = "object"
    /\ LET r == ParseObject(Rest)
           ws == Wraps(Goal)
           j == FirstNullable(ws)
       IN /\ Ready(r)
          /\ r.kind = "Ok"
          /\ j > 0
          /\ r.repr = RInt(0)
          /\ pos' = pos + r.n
          /\ Return(stack, ApplyWraps(SubSeq(ws, 1, j - 1), cells, VNone), pos, Goal)
    /\ UNCHANGED <<input, eof, root, hdr, origPos, cells, err, ptrlog, blklog, digest, tagVars, dpVars>>

\* nullable never taking the object itself: the inner parser always reads it
ToCoreAlways(r) == r.kind = "Ok"

\* No nullable above the core takes the object: the core combinator reads it
ToCore(r) == r.kind = "Ok" /\ ~(FirstNullable(Wraps(Goal)) > 0 /\ r.repr = RInt(0))

\* int
IntObject ==
    /\ pc = "object"
    /\ Core(Goal).k = "int"
    /\ LET r == ParseObject(Rest) IN
         /\ Ready(r)
         /\ ToCore(r)
         /\ IF r.repr.t = "RInt"
            THEN /\ pos' = pos + r.n
                 /\ err' = err
                 /\ Return(stack, ApplyWraps(Wraps(Goal), cells, VInt(r.repr.a)), pos, Goal)
            ELSE /\ FailGot("Expected int", pos + r.n, r.repr)
                 /\ UNCHANGED <<pos, stack, result>>
    /\ UNCHANGED <<input, eof, root, hdr, origPos, cells, ptrlog, blklog, digest, tagVars, dpVars>>

\* string: RString(s) is pushed as a new cell
StringObject ==
    /\ pc = "object"
    /\ Core(Goal).k = "string"
    /\ LET r == ParseObject(Rest) IN
         /\ Ready(r)
         /\ ToCore(r)
         /\ r.repr.t # "RPointer"
         /\ IF r.repr.t = "RString"
            THEN LET rc == VRc("str", Len(cells), r.repr.s)
                     cs == push(cells, rc, Core(Goal))
                 IN /\ pos' = pos + r.n
                    /\ cells' = cs
                    /\ err' = err
                    /\ Return(stack, ApplyWraps(Wraps(Goal), cs, rc), pos, Goal)
            ELSE /\ FailGot("Expected string or pointer to string", pos + r.n, r.repr)
                 /\ UNCHANGED <<pos, cells, stack, result>>
    /\ UNCHANGED <<input, eof, root, hdr, origPos, ptrlog, blklog, digest, tagVars, dpVars>>

\* string / block: RPointer(n) goes through point_back2
PointerObject ==
    /\ pc = "object"
    /\ Core(Goal).k \in {"string", "vec", "rec"}
    /\ LET r == ParseObject(Rest) IN
         /\ Ready(r)
         /\ ToCore(r)
         /\ r.repr.t = "RPointer"
         /\ \E m \in point_back2(cells, r.repr.a, Core(Goal)) :
              CASE m.kind = "Ok" ->
                     /\ pos' = pos + r.n
                     /\ err' = err
                     /\ ptrlog' = Append(ptrlog, [k |-> r.repr.a, len |-> Len(cells),
                                                  val |-> m.val])
                     /\ Return(stack, ApplyWraps(Wraps(Goal), cells, m.val), pos, Goal)
                [] m.kind = "Err" ->
                     /\ Fail(m.msg, pos + r.n)
                     /\ UNCHANGED <<pos, stack, result, ptrlog>>
                [] OTHER ->
                     /\ Panic(m.msg, pos + r.n)
                     /\ UNCHANGED <<pos, stack, result, ptrlog>>
    /\ UNCHANGED <<input, eof, root, hdr, origPos, cells, blklog, digest, tagVars, dpVars>>

\* blockN / the derived impl: the closure's test of len against its arity
ArityOk(sch, len) == sch.k = "vec" \/ len = Len(sch.sub)

\* block entering the closure for a block of any tag
BlockEnterAnyTag(repr) == repr.t = "RBlock" /\ repr.b > 0

\* block: RBlock(0, len) with len > 0 reserves a cell and runs the closure
BlockEnter(repr) == repr.t = "RBlock" /\ repr.a = 0 /\ repr.b > 0

\* block (vec, blockN): a block header, or anything that is not a pointer
BlockObject ==
    /\ pc = "object"
    /\ Core(Goal).k \in {"vec", "rec"}
    /\ LET r == ParseObject(Rest) IN
         /\ Ready(r)
         /\ ToCore(r)
         /\ r.repr.t # "RPointer"
         /\ IF BlockEnter(r.repr)
            THEN LET index == Len(cells)
                     fr == [sch |-> Core(Goal), goal |-> Goal, index |-> index,
                            tag |-> r.repr.a, len |-> r.repr.b, start |-> pos,
                            got |-> <<>>, at |-> <<>>, by |-> <<>>]
                 IN /\ cells' = reserve_for_struct(cells)
                    /\ IF ArityOk(Core(Goal), r.repr.b)
                       THEN /\ pos' = pos + r.n
                            /\ stack' = Append(stack, fr)
                            /\ pc' = "object"
                            /\ err' = err
                       ELSE /\ Fail("actual block length", pos + r.n)
                            /\ UNCHANGED <<pos, stack>>
            ELSE /\ FailGot("Expected block or pointer to array", pos + r.n, r.repr)
                 /\ UNCHANGED <<pos, cells, stack>>
    /\ UNCHANGED <<input, eof, root, hdr, origPos, result, ptrlog, blklog, digest, tagVars, dpVars>>

\* The data the closure of vec / blockN builds from the children it parsed
BlockData(f) == f.got

\* block: the closure returned; backfill_struct2 completes the reserved cell
Backfill ==
    /\ pc = "backfill"
    /\ LET f  == stack[Len(stack)]
           rc == VRc("blk", f.index, BlockData(f))
           b  == backfill_struct2(cells, f.index, rc, f.sch)
       IN IF b.kind = "Ok"
          THEN /\ cells' = b.cells
               /\ blklog' = Append(blklog, [sch |-> f.sch, tag |-> f.tag, len |-> f.len,
                                            at |-> f.at, by |-> f.by, kids |-> f.got,
                                            val |-> rc])
               /\ err' = err
               /\ Return(SubSeq(stack, 1, Len(stack) - 1),
                         ApplyWraps(Wraps(f.goal), b.cells, rc), f.start, f.goal)
          ELSE /\ Panic("backfill_struct: expecting cell to be under construction", pos)
               /\ UNCHANGED <<cells, blklog, stack, result>>
    /\ UNCHANGED <<input, eof, pos, root, hdr, origPos, ptrlog, digest, tagVars, dpVars>>

\* the post-conditions without the test of the stop offset
PostConditionsNoStop(memlen, consumed, offset, h) ==
    IF ~EqAsUsize(memlen, h.size) THEN "Memory should be length"
    ELSE IF ~EqAsUsize(consumed, h.len) THEN "Expected to consume"
    ELSE ""

\* segment: the three post-conditions, in the order the code tests them;
\* the message of the first that fails, or "" when all hold
PostConditions(memlen, consumed, offset, h) ==
    IF ~EqAsUsize(memlen, h.size) THEN "Memory should be length"
    ELSE IF ~EqAsUsize(consumed, h.len) THEN "Expected to consume"
    ELSE IF ~EqAsUsize(offset, h.stop) THEN "Expected to stop at"
    ELSE ""

\* segment: after f returned
SegmentPost ==
    /\ pc = "post"
    /\ LET msg == PostConditions(Len(cells), pos - origPos, pos, hdr) IN
         IF msg # "" THEN Fail(msg, pos)
         ELSE pc' = "digest" /\ err' = err
    /\ UNCHANGED <<input, eof, pos, root, hdr, origPos, cells, stack, result, ptrlog, blklog, digest, tagVars, dpVars>>

\* segment: take(16) reads the digest; file_contents then returns Ok
SegmentDigest ==
    /\ pc = "digest"
    /\ LET r == Scan("digest", Rest) IN
         /\ Ready(r)
         /\ IF r.kind = "Ok"
            THEN /\ digest' = SubSeq(Rest, 1, DigestLen)
                 /\ pos' = pos + DigestLen
                 /\ pc' = "end"
                 /\ err' = err
            ELSE /\ Abort(r)
                 /\ UNCHANGED <<digest, pos>>
    /\ UNCHANGED <<input, eof, root, hdr, origPos, cells, stack, result, ptrlog, blklog, tagVars, dpVars>>

\* file returning what file_contents returns, whatever remains
AllConsumingLax ==
    /\ pc = "end"
    /\ eof \/ Rest # <<>>
    /\ pc' = "ok" /\ err' = err
    /\ UNCHANGED <<input, eof, pos, root, hdr, origPos, cells, stack, result, ptrlog, blklog, digest, tagVars, dpVars>>

\* file: all_consuming accepts only when nothing remains
AllConsuming ==
    /\ pc = "end"
    /\ eof \/ Rest # <<>>
    /\ IF Rest = <<>>
       THEN pc' = "ok" /\ err' = err
       ELSE Fail("Eof", pos)
    /\ UNCHANGED <<input, eof, pos, root, hdr, origPos, cells, stack, result, ptrlog, blklog, digest, tagVars, dpVars>>

---------------------------------------------------------------------------
(* The specification of the file driver.                                   *)

TagIdle == tIn = <<>> /\ tOut = PEof(0)
DpIdle  == /\ dpChain = <<>> /\ dpMem = <<>> /\ dpCur = 0
           /\ dpHeads = <<>> /\ dpOut = <<>> /\ dpPc = "idle"

Init ==
    /\ input = <<>> /\ eof = FALSE /\ pos = 0 /\ pc = "magic"
    /\ root \in Roots
    /\ hdr = [stop |-> 0, len |-> 0, size |-> 0]
    /\ origPos = 0
    /\ cells = <<>> /\ stack = <<>> /\ result = NoVal /\ err = NoErr
    /\ ptrlog = <<>> /\ blklog = <<>> /\ digest = <<>>
    /\ TagIdle /\ DpIdle

Next ==
    \/ Reveal
    \/ VoMagic
    \/ SegmentStart
    \/ ObjectAbort
    \/ NullableNone
    \/ IntObject
    \/ StringObject
    \/ PointerObject
    \/ BlockObject
    \/ Backfill
    \/ SegmentPost
    \/ SegmentDigest
    \/ AllConsuming

Spec == Init /\ [][Next]_vars

---------------------------------------------------------------------------
(* Properties of the file driver (Spec).                                   *)

\* The k-th big-endian 32-bit word of the file, k = 0 for the file magic:
\* 1 stop, 2 segment magic, 3 length, 4 objects_declared, 5 size32, 6 size64
FileWord(k) == BEi(SubSeq(input, 4 * k + 1, 4 * k + 4))

\* segment() returned Ok: its digest has been read
SegmentAccepted == digest # <<>>

\* md5: the Md5 digest of the md-5 crate.  file() never calls it, so the only
\* thing the model needs of it is that it is a function of the bytes; this one
\* is a checksum of the same length.
md5(i) == [k \in 1..DigestLen |-> (Len(i) + k * (IF i = <<>> THEN 1 ELSE i[1] + i[Len(i)])) % 256]

\* C1, as claimed: whenever segment() accepts a segment, the number of Memory
\* cells issued equals the header's size64 field (the fourth integer).
C1_DensitySize64 == SegmentAccepted => Len(cells) = FileWord(6)

\* C1, amended: whenever segment() accepts a segment, the number of Memory
\* cells issued equals the header's objects_declared field (the second integer);
\* size64 is not examined.
C1_DensityObjects == SegmentAccepted => Len(cells) = FileWord(4)

\* C1 witness: an accepted file whose size64 differs from its object count
C1_Witness == pc = "ok" /\ FileWord(6) # FileWord(4) /\ Len(cells) = FileWord(4)

\* C2, as claimed: every input that file() accepts ends with 16 bytes equal to
\* the MD5 of all the bytes before them.
C2_Checksum ==
    pc = "ok" => SubSeq(input, Len(input) - DigestLen + 1, Len(input))
                   = md5(SubSeq(input, 1, Len(input) - DigestLen))

\* C3: every SHARED pointer that yielded a value had 1 <= k <= memory.len() and
\* a completed target at address memory.len() - k; every shared child of a block
\* was completed before the block was, so the decoded graph is acyclic.
C3_BackPointers ==
    /\ \A n \in 1..Len(ptrlog) :
          LET e == ptrlog[n] IN
            /\ 1 <= e.k /\ e.k <= e.len
            /\ e.val.t \in {"str", "blk"}
            /\ e.val.src = e.len - e.k
            /\ cells[e.val.src + 1].st = "Some"
    /\ \A n \in 1..Len(blklog) : \A j \in 1..Len(blklog[n].kids) :
          LET kid == blklog[n].kids[j] IN
            (kid.t = "blk" /\ kid.src >= 0) =>
               \E h \in 1..(n - 1) : blklog[h].val.src = kid.src

\* C3 witness: an accepted file in which a back-pointer to a block was resolved
C3_Witness == pc = "ok" /\ \E n \in 1..Len(ptrlog) : ptrlog[n].val.t = "blk"

\* C4, as claimed: file() always finishes by returning Ok or an error value; no
\* input makes the decoder panic.
C4_NoPanic == pc # "panic"

\* C6: whenever segment() accepts a segment, the digest starts `length` bytes
\* after the 24-byte segment header and at the absolute offset stop_offset.
C6_Position ==
    SegmentAccepted =>
        LET d == pos - DigestLen IN
          /\ d - (4 + 24) = FileWord(3)
          /\ d = FileWord(1)

\* C6 witness: an accepted file with the longest body
C6_Witness == pc = "ok" /\ FileWord(3) = MaxBody /\ FileWord(1) = 4 + 24 + MaxBody

\* Two positions of a typed value hold one and the same shared object
SameObject(x, y) == x.id >= 0 /\ x.id = y.id

\* Two positions were read from the same Memory address
SameAddress(x, y) == x.src >= 0 /\ x.src = y.src

\* A position filled by my(..) / parse_val: it holds a T, not an Rc<T>
ByValue(g) == \E k \in 1..Len(Wraps(g)) : Wraps(g)[k] = "my"

\* C5, as claimed: two positions of a decoded block that resolve to the same
\* Memory address (one directly, one through a back-pointer) hold the same object.
C5_SharingAsClaimed ==
    \A n \in 1..Len(blklog) : \A i, j \in 1..Len(blklog[n].kids) :
        (i # j /\ SameAddress(blklog[n].kids[i], blklog[n].kids[j]))
           => SameObject(blklog[n].kids[i], blklog[n].kids[j])

\* C5, amended: two positions that resolve to the same Memory address hold the
\* same object exactly when both are shared references (the Rc results of
\* string / block / vec); a position projected by value (my, parse_val) holds a
\* clone of its own, because the Memory cell still owns the Rc.  The cell keeps
\* the one projection made when the object was first read.
C5_Sharing ==
    \A n \in 1..Len(blklog) : \A i, j \in 1..Len(blklog[n].kids) :
        LET b == blklog[n]
            x == b.kids[i]
            y == b.kids[j]
        IN (i # j /\ SameAddress(x, y)) =>
              /\ SameObject(x, y) <=> (~ByValue(b.by[i]) /\ ~ByValue(b.by[j]))
              /\ ByValue(b.by[i]) => x.id = -1
              /\ cells[x.src + 1].st = "Some" /\ cells[x.src + 1].val.id = x.src
              /\ x.v = cells[x.src + 1].val.v /\ y.v = x.v

\* C5 witness: an accepted pair whose second element is a back-pointer to the
\* first and is the same object
C5_Witness ==
    /\ pc = "ok"
    /\ \E n \in 1..Len(blklog) :
          /\ Len(blklog[n].kids) = 2
          /\ SameAddress(blklog[n].kids[1], blklog[n].kids[2])
          /\ SameObject(blklog[n].kids[1], blklog[n].kids[2])

\* C8, as claimed: a tag-0 block header with len = 0 read by block / vec /
\* blockN is accepted (as an atom, with no Memory write), never refused.
C8_ZeroLengthBlock ==
    ~(pc = "error" /\ err.msg = "Expected block or pointer to array"
                   /\ err.got = RBlock(0, 0))

\* C10, the blocks a record projection completed: tag 0, exactly n children,
\* child j projected by field j, children met in stream order, value in that order
C10_Completed ==
    \A n \in 1..Len(blklog) :
        LET b == blklog[n] IN
          b.sch.k = "rec" =>
             /\ b.tag = 0
             /\ b.len = Len(b.sch.sub)
             /\ Len(b.kids) = b.len
             /\ b.by = b.sch.sub
             /\ \A j \in 1..(b.len - 1) : b.at[j] < b.at[j + 1]
             /\ b.val.v = b.kids

\* C10, the tokens a record projection refuses: anything that is neither a
\* pointer nor a tag-0 block header of exactly n children ends in an error,
\* and nothing is returned
C10_Refused ==
    (pc = "object" /\ input' = input /\ Core(Goal).k = "rec") =>
        LET r == ParseObject(Rest) IN
          (/\ ToCore(r)
           /\ r.repr.t # "RPointer"
           /\ ~(r.repr.t = "RBlock" /\ r.repr.a = 0 /\ r.repr.b = Len(Core(Goal).sub)))
             => (pc' = "error" /\ stack' = stack /\ result' = result)

\* C10: a record projection of n fields yields a value only from a tag-0 block
\* of exactly n children (or a pointer to one), mapping the children through the
\* field projections in stream order; any other token yields an error.
C10_RecordSchema == []C10_Completed /\ [][C10_Refused]_vars

\* C10 witness: an accepted file whose root is a record of three fields
C10_Witness ==
    /\ pc = "ok"
    /\ \E n \in 1..Len(blklog) : blklog[n].sch.k = "rec" /\ Len(blklog[n].kids) = 3

---------------------------------------------------------------------------
(* The tag decoder on its own (SpecTag): parse_object applied to the front *)
(* of a byte stream, the caller going on with what it left.                *)

\* parse_object has not been called on tIn yet
TagPending == [kind |-> "Pending", repr |-> NoRepr, n |-> 0, msg |-> "", short |-> FALSE]

\* n bytes of payload
Payload(n) == [k \in 1..n |-> 64 + k]

\* The follow-on bytes tried after each lead byte: whole objects (with and
\* without a byte of the next object behind them) and truncated ones.  Values
\* read as u32 / u64 stay below 2^31, the range of TLC's integers.
TagTails(b) ==
    CASE b \in 32..63 -> { Payload(b - 32), Payload(b - 32 + 1), Payload(b - 32 - (IF b > 32 THEN 1 ELSE 0)) }
      [] b = CODE_INT8  -> { <<>>, <<5>>, <<200>>, <<255, 9>> }
      [] b = CODE_INT16 -> { <<1>>, <<1, 2>>, <<255, 254>>, <<128, 0, 9>> }
      [] b = CODE_INT32 -> { <<0, 0, 1>>, <<0, 1, 2, 3>>, <<255, 255, 255, 214>>, <<255, 0, 0, 0, 9>> }
      [] b = CODE_INT64 -> { <<0, 0, 0, 0, 0, 0, 1>>, <<0, 0, 0, 0, 0, 0, 1, 2>>,
                             <<255, 255, 255, 255, 255, 255, 255, 214>>,
                             <<255, 255, 255, 255, 255, 0, 0, 0, 9>> }
      [] b = CODE_SHARED8  -> { <<>>, <<0>>, <<1>>, <<255, 9>> }
      [] b = CODE_SHARED16 -> { <<1>>, <<1, 0>>, <<255, 255, 9>> }
      [] b = CODE_SHARED32 -> { <<0, 0, 1>>, <<0, 0, 1, 0>>, <<127, 255, 255, 255, 9>> }
      [] b = CODE_BLOCK32  -> { <<0, 0, 4>>, <<0, 0, 12, 0>>, <<0, 0, 7, 5>>, <<0, 0, 0, 9>>,
                                <<255, 255, 255, 255, 9>> }
      [] b = CODE_BLOCK64  -> { <<0, 0, 0, 0, 0, 0, 8>>, <<0, 0, 0, 0, 0, 0, 8, 0>>,
                                <<0, 0, 0, 0, 0, 0, 7, 3>>, <<0, 0, 0, 0, 127, 255, 255, 255, 9>> }
      [] b = CODE_STRING8  -> { <<>>, <<0>>, <<2, 65>>, <<2, 65, 66>>, <<1, 65, 66>> }
      [] b = CODE_STRING32 -> { <<0, 0, 0>>, <<0, 0, 0, 3, 65>>, <<0, 0, 0, 2, 65, 66, 67>>,
                                <<0, 0, 1, 0>> }
      [] b = CODE_CODEPOINTER -> { <<0, 0>>, <<0, 0, 0, 9>> \o Payload(15),
                                   <<0, 0, 0, 9>> \o Payload(16), <<0, 0, 1, 9>> \o Payload(17) }
      [] b = CODE_CUSTOM -> { <<95, 106>>, <<95, 106, 0, 0, 0>>,
                              <<95, 106, 0, 0, 0, 0, 0, 0, 0, 0, 42>>,
                              <<95, 106, 0, 0, 0, 0, 0, 0, 0, 1, 42, 9>>,
                              <<95, 106, 0, 255, 255, 255, 255, 255, 255, 255, 214>>,
                              <<95, 107, 0, 0, 0, 0, 0, 0, 0, 0, 42>>,
                              <<0, 0, 0, 0, 0, 0, 0, 0, 42>> }
      [] OTHER -> { <<>>, <<9>> }

\* The byte streams the decoder is run on
TagInputs == { <<>> } \cup UNION { { <<b>> \o t : t \in TagTails(b) } : b \in 0..255 }

\* One call of parse_object on the stream
TagDecode ==
    /\ tOut = TagPending
    /\ tOut' = ParseObject(tIn)
    /\ UNCHANGED <<tIn, mainVars, dpVars>>

\* The caller takes the rest of the stream the call returned and goes on
TagAdvance ==
    /\ tOut.kind = "Ok"
    /\ tIn' = SubSeq(tIn, tOut.n + 1, Len(tIn))
    /\ tOut' = TagPending
    /\ UNCHANGED <<mainVars, dpVars>>

\* The file driver at rest
MainIdle ==
    /\ input = <<>> /\ eof = FALSE /\ pos = 0 /\ pc = "idle"
    /\ root = NoTy
    /\ hdr = [stop |-> 0, len |-> 0, size |-> 0]
    /\ origPos = 0
    /\ cells = <<>> /\ stack = <<>> /\ result = NoVal /\ err = NoErr
    /\ ptrlog = <<>> /\ blklog = <<>> /\ digest = <<>>

InitTag == MainIdle /\ DpIdle /\ tIn \in TagInputs /\ tOut = TagPending

NextTag ==
    \/ TagDecode
    \/ TagAdvance

SpecTag == InitTag /\ [][NextTag]_vars

---------------------------------------------------------------------------
(* Properties of the tag decoder (SpecTag).                                *)

RECURSIVE Horner(_, _)
\* The big-endian value of the bytes bs behind an accumulated value acc
Horner(acc, bs) == IF bs = <<>> THEN acc ELSE Horner(acc * 256 + Head(bs), Tail(bs))

\* The unsigned and the sign-extended reading of a big-endian field
Unsigned(bs) == Horner(0, bs)
Signed(bs)   == Horner(IF Head(bs) >= 128 THEN Head(bs) - 256 ELSE Head(bs), Tail(bs))

\* The outcomes of the dispatch table: a Repr after n bytes, a hard failure,
\* an object that is cut short, a lead byte the table does not list
Gives(repr, n) == [kind |-> "Ok", repr |-> repr, n |-> n]
HardFailure    == [kind |-> "Failure", repr |-> NoRepr, n |-> 0]
CutShort       == [kind |-> "Short", repr |-> NoRepr, n |-> 0]
Unlisted       == [kind |-> "Unlisted", repr |-> NoRepr, n |-> 0]

\* A field of w follow-on bytes t giving repr
Field(t, w, repr) == IF Len(t) < w THEN CutShort ELSE Gives(repr, 1 + w)

\* The dispatch table of the tag decoder, by lead byte
TagTable(i) ==
    LET b == Head(i)
        t == Tail(i)
    IN CASE b \in 128..255 -> Gives(RBlock(b % 16, (b \div 16) % 8), 1)
         [] b \in 64..127  -> Gives(RInt(b - 64), 1)
         [] b \in 32..63   -> Field(t, b - 32, RString(SubSeq(t, 1, b - 32)))
         [] b \in 0..3     -> Field(t, 2 ^ b, RInt(Signed(SubSeq(t, 1, 2 ^ b))))
         [] b \in 4..6     -> Field(t, 2 ^ (b - 4), RPointer(Unsigned(SubSeq(t, 1, 2 ^ (b - 4)))))
         [] b = 8          -> Field(t, 4, RBlock(t[4], Unsigned(SubSeq(t, 1, 3)) \div 4))
         [] b = 19         -> Field(t, 8, RBlock(Unsigned(SubSeq(t, 1, 8)) % 256,
                                                 Unsigned(SubSeq(t, 1, 8)) \div 1024))
         [] b = 9          -> IF Len(t) < 1 THEN CutShort
                              ELSE Field(t, 1 + t[1], RString(SubSeq(t, 2, 1 + t[1])))
         [] b = 10         -> IF Len(t) < 4 THEN CutShort
                              ELSE LET n == Unsigned(SubSeq(t, 1, 4)) IN
                                   Field(t, 4 + n, RString(SubSeq(t, 5, 4 + n)))
         [] b = 16         -> Field(t, 4 + 16, RCode(Unsigned(SubSeq(t, 1, 4))))
         [] b = 18         -> IF \A k \in 1..Len(t) : t[k] # 0 THEN CutShort
                              ELSE IF Len(t) < 3 \/ SubSeq(t, 1, 3) # <<95, 106, 0>> THEN HardFailure
                              ELSE IF Len(t) < 3 + 8 THEN CutShort
                              ELSE IF Signed(SubSeq(t, 4, 11)) < 0 THEN HardFailure
                              ELSE Gives(RInt63(Signed(SubSeq(t, 4, 11))), 1 + 3 + 8)
         [] b \in {7, 17} \cup 11..15 \cup 20..31 -> HardFailure
         [] OTHER          -> Unlisted

\* C7: for every lead byte, a call of the tag decoder on a stream that holds
\* the whole object gives the Repr of the dispatch table and advances by exactly
\* the encoded width, the hard failures of the table are hard failures, and a
\* stream cut short inside the object gives no Repr.
C7_Dispatch ==
    (tOut # TagPending /\ tIn # <<>>) =>
        LET want == TagTable(tIn) IN
          /\ want.kind = "Ok" => tOut.kind = "Ok" /\ tOut.repr = want.repr /\ tOut.n = want.n
          /\ want.kind = "Failure" => tOut.kind = "Failure"
          /\ want.kind = "Short" => tOut.kind \in {"Error", "Panic"}
          /\ want.kind # "Unlisted"

\* C7 witness: a BLOCK32 header decoded to a block of tag 5 and one child, the
\* two low bits of the 3-byte length dropped, after 5 bytes
C7_Witness == tIn = <<8, 0, 0, 7, 5>> /\ tOut = POk(RBlock(5, 1), 5)

---------------------------------------------------------------------------
(* The typed layer's DirPath (SpecDirPath): from_cell run on the untyped    *)
(* Memory of a right-recursive list, one call of the recursion per step.    *)

\* MemoryCell and the Data of a block's fields
StructCell(tag, block) == [c |-> "Struct", tag |-> tag, block |-> block, data |-> <<>>]
StringCell(data)       == [c |-> "String", tag |-> 0, block |-> <<>>, data |-> data]
DPtr(a)                 == [d |-> "Ptr", n |-> a]
DInt(n)                 == [d |-> "Int", n |-> n]

\* The result of a projection
DOk(v)  == [ok |-> TRUE, some |-> TRUE, v |-> v]
DNone   == [ok |-> TRUE, some |-> FALSE, v |-> <<>>]
DErr    == [ok |-> FALSE, some |-> FALSE, v |-> <<>>]

\* String::from_cell: the bytes of a String cell when they are UTF-8 (of the
\* one-byte segments used here: when they are ASCII)
String_from_cell(cell) ==
    IF cell.c = "String" /\ \A k \in 1..Len(cell.data) : cell.data[k] < 128
    THEN DOk(cell.data) ELSE DErr

\* resolve_ref::<String>: the projection of the cell a pointer leads to
resolve_ref(mem, data) ==
    IF data.d = "Ptr" /\ data.n + 1 \in 1..Len(mem) THEN String_from_cell(mem[data.n + 1]) ELSE DErr

\* resolve_nullable::<DirPath>: DInt(0) is absent; anything else must lead to a cell
resolve_nullable(mem, data) ==
    IF data = DInt(0) THEN DNone
    ELSE IF data.d = "Ptr" /\ data.n + 1 \in 1..Len(mem) THEN DOk(data.n) ELSE DErr

\* The segments of a cell with a tail, with the head appended last
SegmentsHeadLast(head, tail) == tail \o <<head>>

\* The segments of a cell with a tail: vec.push(my(head)); vec.extend_from_slice(&tail.segments)
Segments(head, tail) == <<head>> \o tail

\* The path segments the chains are made of (the last is not UTF-8)
Segs == { <<67>>, <<73>>, <<76>>, <<255>> }

RECURSIVE Chains(_)
\* The chains of 1..n segments
Chains(n) == IF n = 0 THEN {} 
             ELSE { <<s>> : s \in Segs } \cup Chains(n - 1)
                  \cup { Append(c, s) : c \in { x \in Chains(n - 1) : Len(x) = n - 1 }, s \in Segs }

\* The Memory of the chain h1..hn as the graph filler leaves it: cell h_k's
\* block at address 2(k-1), its head string at 2(k-1)+1, the tail of the last
\* block DInt(0).  shape "tagged" gives the last block tag 1, "wide" a third field,
\* "loose" an immediate integer for its head.
DirPathMemory(chain, shape) ==
    [a \in 1..(2 * Len(chain)) |->
        LET k == (a + 1) \div 2 IN
        IF a % 2 = 0 THEN StringCell(chain[k])
        ELSE LET tl    == IF k < Len(chain) THEN DPtr(2 * k) ELSE DInt(0)
                 last  == k = Len(chain)
                 hd    == IF last /\ shape = "loose" THEN DInt(1) ELSE DPtr(a)
                 block == IF last /\ shape = "wide" THEN <<hd, tl, DInt(0)>> ELSE <<hd, tl>>
             IN StructCell(IF last /\ shape = "tagged" THEN 1 ELSE 0, block)]

\* DirPath::from_cell up to its recursive call: the match on the cell, the
\* head, and the tail either absent (the cell's segments are the head alone)
\* or another cell to project first
DpFromCell ==
    /\ dpPc = "from_cell"
    /\ LET cell == dpMem[dpCur + 1]
           head == resolve_ref(dpMem, cell.block[1])
           tail == resolve_nullable(dpMem, cell.block[2])
       IN IF cell.c # "Struct" \/ cell.tag # 0 \/ Len(cell.block) # 2
          THEN dpPc' = "error" /\ UNCHANGED <<dpCur, dpHeads, dpOut>>
          ELSE IF ~head.ok \/ ~tail.ok
          THEN dpPc' = "error" /\ UNCHANGED <<dpCur, dpHeads, dpOut>>
          ELSE IF ~tail.some
          THEN dpOut' = <<head.v>> /\ dpPc' = "return" /\ UNCHANGED <<dpCur, dpHeads>>
          ELSE /\ dpHeads' = Append(dpHeads, head.v)
               /\ dpCur' = tail.v
               /\ UNCHANGED <<dpOut, dpPc>>
    /\ UNCHANGED <<dpChain, dpMem, mainVars, tagVars>>

\* DirPath::from_cell after its recursive call returned the tail
DpReturn ==
    /\ dpPc = "return" /\ dpHeads # <<>>
    /\ dpOut' = Segments(dpHeads[Len(dpHeads)], dpOut)
    /\ dpHeads' = SubSeq(dpHeads, 1, Len(dpHeads) - 1)
    /\ UNCHANGED <<dpChain, dpMem, dpCur, dpPc, mainVars, tagVars>>

\* The outermost call returns Ok(DirPath{segments})
DpDone ==
    /\ dpPc = "return" /\ dpHeads = <<>>
    /\ dpPc' = "done"
    /\ UNCHANGED <<dpChain, dpMem, dpCur, dpHeads, dpOut, mainVars, tagVars>>

InitDirPath ==
    /\ MainIdle /\ TagIdle
    /\ dpChain \in Chains(MaxChain)
    /\ dpMem \in { DirPathMemory(dpChain, shape) : shape \in {"list", "tagged", "wide", "loose"} }
    /\ dpCur = 0 /\ dpHeads = <<>> /\ dpOut = <<>> /\ dpPc = "from_cell"

NextDirPath ==
    \/ DpFromCell
    \/ DpReturn
    \/ DpDone

SpecDirPath == InitDirPath /\ [][NextDirPath]_vars

---------------------------------------------------------------------------
(* Properties of the DirPath projection (SpecDirPath).                     *)

\* The sequence s back to front
Reverse(s) == [k \in 1..Len(s) |-> s[Len(s) + 1 - k]]

\* C9, as claimed: the segments of a decoded on-disk chain h1, ..., hn are
\* hn, ..., h1 (each head placed behind the segments of its tail).
C9_HeadLast == dpPc = "done" => dpOut = Reverse(dpChain)

\* C9, amended: a cell whose tail is Int(0) decodes to its head alone, and a
\* cell Struct(0, [head_string, tail]) decodes to its head followed by the
\* segments of the decoded tail, so the segments of a decoded on-disk chain
\* h1, ..., hn are h1, ..., hn; while the recursion is under way the heads
\* taken so far and the segments built so far are a prefix and a suffix of it.
C9_HeadFirst ==
    /\ dpPc = "done" => dpOut = dpChain
    /\ dpPc \in {"from_cell", "return"} =>
          /\ dpHeads = SubSeq(dpChain, 1, Len(dpHeads))
          /\ dpPc = "return" =>
                dpOut = SubSeq(dpChain, Len(dpHeads) + 1, Len(dpChain))

\* C9 witness: a chain of two or more segments that differs from its reverse,
\* decoded
C9_Witness ==
    /\ dpPc = "done" /\ Len(dpChain) >= 2 /\ dpChain # Reverse(dpChain)
    /\ dpOut = dpChain

---------------------------------------------------------------------------
(* Properties of nullable (Spec).                                          *)

\* The value the step hands to the caller of the combinator that was waiting
\* (to the closure of the enclosing block, or to segment), as a sequence of
\* at most one value
Returned ==
    IF stack' = <<>>
    THEN IF pc' = "post" /\ pc # "post" THEN <<result'>> ELSE <<>>
    ELSE LET d == Len(stack')
             f == stack'[d]
         IN IF Len(stack) >= d /\ Len(f.got) = Len(stack[d].got) + 1
            THEN <<f.got[Len(f.got)]>>
            ELSE <<>>

\* The parser waiting for the next object is nullable(f), and an object is there
NullableMeets(r) ==
    /\ pc = "object" /\ input' = input
    /\ FirstNullable(Wraps(Goal)) > 0
    /\ r.kind = "Ok"

\* C11, absent: on an object that decodes to RInt(0) nullable(f) returns None,
\* consumes exactly that object and leaves Memory as it was
C11_Absent ==
    LET r == ParseObject(Rest) IN
    (NullableMeets(r) /\ r.repr = RInt(0)) =>
        /\ Returned = <<VNone>>
        /\ pos' = pos + r.n
        /\ cells' = cells /\ ptrlog' = ptrlog /\ blklog' = blklog
        /\ pc' # "error" /\ pc' # "panic"

\* C11, present: on any other object the step is f's own step at the same
\* position on the same Memory: the one object is consumed once, the only cell
\* written is the one f writes for the object, a value handed back is Some of
\* the value f makes of the object, and an error is f's error
C11_Present ==
    LET r == ParseObject(Rest)
        g == Core(Goal)
    IN (NullableMeets(r) /\ r.repr # RInt(0)) =>
        /\ Returned # <<VNone>>
        /\ pos' \in {pos, pos + r.n}
        /\ pc' \in {"error", "panic"} <=> pos' = pos
        /\ pc' \in {"error", "panic"} => Returned = <<>> /\ stack' = stack
        /\ Returned # <<>> =>
              /\ Returned[1].t = "Some"
              /\ r.repr.t = "RString" =>
                    /\ g.k = "string"
                    /\ cells' = push(cells, VRc("str", Len(cells), r.repr.s), g)
                    /\ Returned[1].v[1].src = Len(cells)
                    /\ Returned[1].v[1].v = r.repr.s
              /\ r.repr.t = "RPointer" =>
                    /\ cells' = cells
                    /\ r.repr.a \in 1..Len(cells)
                    /\ Returned[1].v[1].src = Len(cells) - r.repr.a
                    /\ Returned[1].v[1].v = cells[Len(cells) - r.repr.a + 1].val.v
              /\ r.repr.t \notin {"RString", "RPointer"} => g.k = "int" /\ cells' = cells
        /\ (Returned = <<>> /\ pc' = "object") =>
              /\ BlockEnter(r.repr)
              /\ cells' = reserve_for_struct(cells)
              /\ Len(stack') = Len(stack) + 1
              /\ stack'[Len(stack')].start = pos
              /\ stack'[Len(stack')].index = Len(cells)
              /\ stack'[Len(stack')].goal = Goal

\* C11, a block read under nullable: when its closure is done the block is
\* handed back as Some of the block f hands back, None only for RInt(0)
C11_Blocks ==
    \A n \in 1..Len(blklog) : \A j \in 1..Len(blklog[n].kids) :
        LET b == blklog[n]
            x == b.kids[j]
        IN IF FirstNullable(Wraps(b.by[j])) > 0
           THEN \/ x = VNone /\ ParseObject(SubSeq(input, b.at[j] + 1, Len(input))).repr = RInt(0)
                \/ /\ x.t = "Some"
                   /\ ParseObject(SubSeq(input, b.at[j] + 1, Len(input))).repr # RInt(0)
                   /\ x.v[1].t = (IF Core(b.by[j]).k = "string" THEN "str"
                                  ELSE IF Core(b.by[j]).k = "int" THEN "int" ELSE "blk")
           ELSE x.t \notin {"None", "Some"}

\* C11: nullable(f) yields None exactly when the next object decodes to
\* RInt(0), in any of the integer encodings, consuming that object and leaving
\* Memory unchanged; on every other object it behaves as f at the same position
\* on the same Memory and wraps f's value in Some (the lookahead consumes
\* nothing and writes nothing).
C11_Nullable == [][C11_Absent /\ C11_Present]_vars /\ []C11_Blocks

\* C11 witness: an accepted file in which one nullable position took the
\* two-byte INT8 encoding of 0 as None and another handed back Some
C11_Witness ==
    /\ pc = "ok"
    /\ \E n \in 1..Len(blklog) : \E i, j \in 1..Len(blklog[n].kids) :
          /\ blklog[n].kids[i] = VNone
          /\ SubSeq(input, blklog[n].at[i] + 1, blklog[n].at[i] + 2) = <<CODE_INT8, 0>>
          /\ blklog[n].kids[j].t = "Some"

---------------------------------------------------------------------------
(* Memory on its own (SpecMemory): its four methods called in any order    *)
(* with any arguments; pc names the method called last.                    *)

\* The strings pushed and the data backfilled
MemStrings == { <<>>, <<88>> }
MemData    == { <<>>, <<VInt(1)>> }

\* memory.push(rc)
MemPush ==
    /\ pc \notin {"idle", "panic"}
    /\ Len(cells) < MaxObj
    /\ \E s \in MemStrings :
          /\ cells' = push(cells, VRc("str", Len(cells), s), SString)
          /\ result' = VRc("str", Len(cells), s)
    /\ pc' = "push"
    /\ UNCHANGED <<input, eof, pos, root, hdr, origPos, stack, err, ptrlog, blklog, digest, tagVars, dpVars>>

\* memory.reserve_for_struct(): returns the address of the new cell
MemReserve ==
    /\ pc \notin {"idle", "panic"}
    /\ Len(cells) < MaxObj
    /\ cells' = reserve_for_struct(cells)
    /\ result' = VInt(Len(cells') - 1)
    /\ pc' = "reserve_for_struct"
    /\ UNCHANGED <<input, eof, pos, root, hdr, origPos, stack, err, ptrlog, blklog, digest, tagVars, dpVars>>

\* memory.backfill_struct2(addr, data): self.cells[addr] panics out of bounds
MemBackfill ==
    /\ pc \notin {"idle", "panic"}
    /\ \E addr \in 0..Len(cells), data \in MemData :
          IF addr >= Len(cells)
          THEN /\ Panic("index out of bounds", addr)
               /\ UNCHANGED <<cells, result>>
          ELSE LET rc == VRc("blk", addr, data)
                   b  == backfill_struct2(cells, addr, rc, SVec(SInt))
               IN IF b.kind = "Ok"
                  THEN /\ cells' = b.cells
                       /\ result' = rc
                       /\ pc' = "backfill_struct2"
                       /\ err' = err
                  ELSE /\ Panic("backfill_struct: expecting cell to be under construction", addr)
                       /\ UNCHANGED <<cells, result>>
    /\ UNCHANGED <<input, eof, pos, root, hdr, origPos, stack, ptrlog, blklog, digest, tagVars, dpVars>>

\* memory.point_back2::<T>(offset)
MemPointBack ==
    /\ pc \notin {"idle", "panic"}
    /\ \E offset \in 0..(MaxObj + 1), ty \in {SString, SVec(SInt)} :
          \E m \in point_back2(cells, offset, ty) :
             CASE m.kind = "Ok" ->
                    /\ result' = m.val
                    /\ err' = NoErr
                    /\ pc' = "point_back2"
               [] m.kind = "Err" ->
                    /\ result' = NoVal
                    /\ err' = [msg |-> m.msg, at |-> offset, got |-> NoRepr]
                    /\ pc' = "point_back2"
               [] OTHER ->
                    /\ Panic(m.msg, offset)
                    /\ result' = NoVal
    /\ UNCHANGED <<input, eof, pos, root, hdr, origPos, cells, stack, ptrlog, blklog, digest, tagVars, dpVars>>

\* Memory::with_capacity: no cells
InitMemory ==
    /\ input = <<>> /\ eof = FALSE /\ pos = 0 /\ pc = "with_capacity"
    /\ root = NoTy
    /\ hdr = [stop |-> 0, len |-> 0, size |-> 0]
    /\ origPos = 0
    /\ cells = <<>> /\ stack = <<>> /\ result = NoVal /\ err = NoErr
    /\ ptrlog = <<>> /\ blklog = <<>> /\ digest = <<>>
    /\ TagIdle /\ DpIdle

NextMemory ==
    \/ MemPush
    \/ MemReserve
    \/ MemBackfill
    \/ MemPointBack

SpecMemory == InitMemory /\ [][NextMemory]_vars

---------------------------------------------------------------------------
(* Properties of Memory (SpecMemory).                                      *)

\* C12, one call: the length never decreases, push and reserve_for_struct
\* issue exactly the next address, backfill_struct2 and point_back2 issue
\* none, point_back2 changes no cell, and a cell changes at most once, from
\* under construction to completed
C12_Call ==
    /\ Len(cells') >= Len(cells)
    /\ pc' \in {"push", "reserve_for_struct"} =>
          /\ Len(cells') = Len(cells) + 1
          /\ result'.t = "int" => result' = VInt(Len(cells))
          /\ result'.t # "int" => cells'[Len(cells')].val = result' /\ result'.id = Len(cells)
    /\ pc' \in {"backfill_struct2", "point_back2", "panic"} => Len(cells') = Len(cells)
    /\ pc' = "point_back2" => cells' = cells
    /\ \A a \in 1..Len(cells) :
          /\ cells[a].st = "Some" => cells'[a] = cells[a]
          /\ cells'[a] # cells[a] => cells[a].st = "None" /\ cells'[a].st = "Some"

\* C12, addresses: the k-th cell is the one at address k - 1
C12_Dense ==
    \A a \in 1..Len(cells) : cells[a].st = "Some" => cells[a].val.id = a - 1

\* C12: Memory is append-only with stable, dense addresses: over any sequence
\* of push, reserve_for_struct, backfill_struct2 and point_back2 calls the
\* length never decreases, the k-th issued address is k - 1, point_back2
\* changes neither a cell nor the length, and a cell changes state at most
\* once and never again once completed.
C12_AppendOnly == [][C12_Call]_vars /\ []C12_Dense

\* C12 witness: a reserved cell was backfilled after a later cell was pushed,
\* and a backfill of a completed cell was then refused
C12_Witness ==
    /\ pc = "panic"
    /\ err.msg = "backfill_struct: expecting cell to be under construction"
    /\ Len(cells) >= 2
    /\ cells[1].st = "Some" /\ cells[1].val.t = "blk" /\ cells[1].val.v = <<VInt(1)>>
    /\ cells[2].st = "Some" /\ cells[2].val.t = "str"

---------------------------------------------------------------------------
(* Properties of block() (Spec).                                           *)

\* The Memory address a child was read from, -1 for an immediate
ChildAddress(x) == IF x.t = "Some" THEN x.v[1].src ELSE x.src

\* The child was met as a back-pointer
ByPointer(at) == ParseObject(SubSeq(input, at + 1, Len(input))).repr.t = "RPointer"

\* C13, blocks under way: each has its cell, reserved and still under
\* construction, below every cell made since; an enclosing block waits for a
\* child; the children parsed so far that made a cell made it above the block's
BlocksUnderWay ==
    \A d \in 1..Len(stack) :
        LET f == stack[d] IN
          /\ f.tag = 0 /\ f.len > 0
          /\ f.index < Len(cells)
          /\ cells[f.index + 1].st = "None"
          /\ Len(f.got) <= f.len
          /\ d < Len(stack) => Len(f.got) < f.len /\ f.index < stack[d + 1].index
          /\ \A j \in 1..Len(f.got) :
                (ChildAddress(f.got[j]) >= 0 /\ ~ByPointer(f.at[j]))
                    => ChildAddress(f.got[j]) > f.index

\* C13, completed blocks: exactly len children, the block at the address
\* reserved for it, below the cells of the children it made
BlocksCompleted ==
    \A n \in 1..Len(blklog) :
        LET b == blklog[n] IN
          /\ b.tag = 0 /\ b.len > 0
          /\ Len(b.kids) = b.len
          /\ b.val.id < Len(cells)
          /\ cells[b.val.id + 1] = SomeCell(b.val, b.sch)
          /\ \A j \in 1..Len(b.kids) :
                (ChildAddress(b.kids[j]) >= 0 /\ ~ByPointer(b.at[j]))
                    => ChildAddress(b.kids[j]) > b.val.id

\* C13: block() reserves the address of a non-empty tag-0 block before any
\* child is parsed (every cell made for a descendant has a greater address),
\* parses exactly len children and then backfills the address; at every
\* backfill the cell is still under construction, so the backfill panic is
\* never reached, and once the root object is parsed no cell is left under
\* construction.
C13_Construction ==
    /\ BlocksUnderWay
    /\ BlocksCompleted
    /\ pc = "backfill" => stack # <<>> /\ Len(stack[Len(stack)].got) = stack[Len(stack)].len
    /\ (pc = "object" /\ stack # <<>>) => Len(stack[Len(stack)].got) < stack[Len(stack)].len
    /\ err.msg # "backfill_struct: expecting cell to be under construction"
    /\ pc \notin {"error", "panic"} =>
          \A a \in 1..Len(cells) :
              cells[a].st = "None" <=> \E d \in 1..Len(stack) : stack[d].index = a - 1
    /\ pc \in {"post", "digest", "end", "ok"} =>
          stack = <<>> /\ \A a \in 1..Len(cells) : cells[a].st = "Some"

\* C13 witness: an accepted file with a block inside a block, the inner one
\* completed first at the greater address
C13_Witness ==
    /\ pc = "ok"
    /\ \E n, k \in 1..Len(blklog) :
          /\ n < k
          /\ blklog[n].val.id > blklog[k].val.id
          /\ \E j \in 1..Len(blklog[k].kids) : ChildAddress(blklog[k].kids[j]) = blklog[n].val.id

---------------------------------------------------------------------------
(* Properties of file() (Spec).                                            *)

\* The input is the file magic, one segment that passes its post-conditions
\* and the segment's digest, and nothing else
OneSegmentFile ==
    /\ Len(input) >= BodyStart + DigestLen
    /\ BEi(SubSeq(input, 1, 4)) = VO_MAGIC
    /\ SubSeq(input, 9, 12) = SegMagic
    /\ origPos = BodyStart
    /\ result # NoVal /\ stack = <<>>
    /\ PostConditions(Len(cells), Len(input) - DigestLen - origPos, Len(input) - DigestLen, hdr) = ""
    /\ digest = SubSeq(input, Len(input) - DigestLen + 1, Len(input))
    /\ eof

\* C14, accepted and rejected: an accepted input is a one-segment file read to
\* its last byte; once the segment and its digest are read the only rejection
\* left is for the bytes that follow the digest
C14_Outcome ==
    /\ pc = "ok" => pos = Len(input) /\ OneSegmentFile
    /\ (pc = "error" /\ digest # <<>>) =>
          /\ err.msg = "Eof" /\ err.at = hdr.stop + DigestLen
          /\ Len(input) > hdr.stop + DigestLen

\* C14, the step of all_consuming: it accepts exactly when nothing remains
\* after the digest and rejects exactly when something does
C14_Step ==
    (pc = "end" /\ input' = input /\ eof' = eof) =>
        /\ pc' = "ok" <=> Rest = <<>>
        /\ pc' = "error" <=> Rest # <<>>
        /\ Rest = <<>> => OneSegmentFile

\* C14: file() accepts an input only if it is consumed completely: the
\* accepted inputs are exactly the file magic 8991, one segment that passes
\* its post-conditions and that segment's 16-byte digest with no byte after
\* it; an input with bytes after the first segment's digest is rejected.
C14_AllConsumed == []C14_Outcome /\ [][C14_Step]_vars

\* C14 witness: an accepted one-segment file
C14_Witness ==
    /\ pc = "ok"
    /\ Len(input) = BodyStart + hdr.len + DigestLen
    /\ hdr.len >= 3 /\ hdr.stop = BodyStart + hdr.len

=============================================================================
